---- MODULE Spec2Model ----
(***************************************************************************)
(* FineTunedBERTClassifier (texar/torch/modules/pretrained/                *)
(* bert_finetuned_classifier.py): load_pretrained_config and the           *)
(* checkpoint remapping pass _init_from_checkpoint.                        *)
(*                                                                         *)
(* Names and paths are strings, handled character by character as Python   *)
(* does (startswith, endswith, split, slicing, format).  An array is a     *)
(* record [shape, data]; data maps every 0-based index tuple of the shape   *)
(* to a value.  A value <<k, idx>> stands for "the number stored at idx of  *)
(* the k-th tensor of the checkpoint"; <<0, idx>> is the value a freshly    *)
(* constructed parameter holds at idx.                                     *)
(***************************************************************************)
EXTENDS Integers, Sequences, FiniteSets, TLC

VARIABLES
    ckpt,      \* the checkpoint on disk: sequence of [name, shape]
    arch,      \* the target model's sizes [H, I], fixed by the caller
    tree,      \* the target parameter tree: dotted path -> array
    tfnames,   \* local list tfnames
    arrays,    \* local list arrays
    pos,       \* position of zip(tfnames, arrays): pairs consumed so far
    idx,       \* local counter idx
    loc,       \* locals of the last loop iteration
    before,    \* the tree as it was when the last loop iteration began
    assigned,  \* the paths written by pointer.data = ... in this pass, in order
    err,       \* the exception that left the pass, [kind, name]
    pc,        \* "load", "loop", "done", "failed"
    run,       \* which pass over the checkpoint this is (1 or 2)
    first,     \* what the first pass left: [tree, err, pos]
    cfg        \* load_pretrained_config: arguments, hparams, self.* and outcome

vars == <<ckpt, arch, tree, tfnames, arrays, pos, idx, loc, before, assigned,
          err, pc, run, first, cfg>>

loaderVars == <<ckpt, arch, tree, tfnames, arrays, pos, idx, loc, before,
                assigned, err, pc, run, first>>

(***************************************************************************)
(* Bounds                                                                  *)
(***************************************************************************)
\* longest checkpoint of the sequence family
MaxTensors == 2
\* largest axis length of a stored tensor and of the target model's sizes
MaxDim == 3
\* number of repeated blocks of the target model (L)
NumLayers == 2

(***************************************************************************)
(* Python string operations                                                *)
(***************************************************************************)
\* s.startswith(p)
StartsWith(s, p) == Len(s) >= Len(p) /\ SubSeq(s, 1, Len(p)) = p

\* s.endswith(p)
EndsWith(s, p) == Len(s) >= Len(p) /\ SubSeq(s, Len(s) - Len(p) + 1, Len(s)) = p

\* s[n:]
SliceFrom(s, n) == IF n >= Len(s) THEN "" ELSE SubSeq(s, n + 1, Len(s))

RECURSIVE SplitScan(_, _, _, _)
\* the pieces of s from position start on, position i being looked at next
SplitScan(s, sep, i, start) ==
    IF i > Len(s) THEN <<SubSeq(s, start, Len(s))>>
    ELSE IF SubSeq(s, i, i) = sep
         THEN <<SubSeq(s, start, i - 1)>> \o SplitScan(s, sep, i + 1, i + 1)
         ELSE SplitScan(s, sep, i + 1, start)

\* s.split(sep), sep one character
Split(s, sep) == SplitScan(s, sep, 1, 1)

RECURSIVE Join(_, _)
\* sep.join(segs)
Join(sep, segs) ==
    IF Len(segs) = 0 THEN ""
    ELSE IF Len(segs) = 1 THEN segs[1]
    ELSE segs[1] \o sep \o Join(sep, Tail(segs))

\* segs[n:]
ListFrom(segs, n) == IF n >= Len(segs) THEN <<>> ELSE SubSeq(segs, n + 1, Len(segs))

\* template.format(arg); a template is <<text before {}, text after {}>>
Format(template, arg) == template[1] \o arg \o template[2]

(***************************************************************************)
(* The rule tables                                                         *)
(***************************************************************************)
global_tensor_map ==
    ("bert/embeddings/word_embeddings" :> "word_embedder._embedding") @@
    ("bert/embeddings/token_type_embeddings" :> "segment_embedder._embedding") @@
    ("bert/embeddings/position_embeddings" :> "position_embedder._embedding") @@
    ("bert/embeddings/LayerNorm/beta" :> "encoder.input_normalizer.bias") @@
    ("bert/embeddings/LayerNorm/gamma" :> "encoder.input_normalizer.weight")

layer_tensor_map ==
    ("attention/self/key/bias" :> <<"self_attns.", ".K_dense.bias">>) @@
    ("attention/self/query/bias" :> <<"self_attns.", ".Q_dense.bias">>) @@
    ("attention/self/value/bias" :> <<"self_attns.", ".V_dense.bias">>) @@
    ("attention/output/dense/bias" :> <<"self_attns.", ".O_dense.bias">>) @@
    ("attention/output/LayerNorm/gamma" :> <<"poswise_layer_norm.", ".weight">>) @@
    ("attention/output/LayerNorm/beta" :> <<"poswise_layer_norm.", ".bias">>) @@
    ("intermediate/dense/bias" :> <<"poswise_networks.", "._layers.0.bias">>) @@
    ("output/dense/bias" :> <<"poswise_networks.", "._layers.2.bias">>) @@
    ("output/LayerNorm/gamma" :> <<"output_layer_norm.", ".weight">>) @@
    ("output/LayerNorm/beta" :> <<"output_layer_norm.", ".bias">>)

layer_transpose_map ==
    ("attention/self/key/kernel" :> <<"self_attns.", ".K_dense.weight">>) @@
    ("attention/self/query/kernel" :> <<"self_attns.", ".Q_dense.weight">>) @@
    ("attention/self/value/kernel" :> <<"self_attns.", ".V_dense.weight">>) @@
    ("attention/output/dense/kernel" :> <<"self_attns.", ".O_dense.weight">>) @@
    ("intermediate/dense/kernel" :> <<"poswise_networks.", "._layers.0.weight">>) @@
    ("output/dense/kernel" :> <<"poswise_networks.", "._layers.2.weight">>)

pooler_map ==
    ("bert/pooler/dense/bias" :> "pooler.0.bias") @@
    ("bert/pooler/dense/kernel" :> "pooler.0.weight")

py_prefix == "encoder."

(***************************************************************************)
(* numpy arrays                                                            *)
(***************************************************************************)
Reverse(s) == [d \in 1..Len(s) |-> s[Len(s) + 1 - d]]

\* the index tuples of an array of this shape
Indices(shape) ==
    {ix \in [1..Len(shape) -> 0..(MaxDim - 1)] : \A d \in 1..Len(shape) : ix[d] < shape[d]}

\* tf.train.load_variable(tf_path, name) for the k-th variable, stored with this shape
LoadVariable(k, shape) ==
    [shape |-> shape, data |-> [ix \in Indices(shape) |-> <<k, ix>>]]

IsNotOne(n) == n # 1

\* array.squeeze(): every axis of length 1 is removed, the values keep their order
Squeeze(a) ==
    LET kept(d) == Cardinality({e \in 1..d : a.shape[e] # 1})
        shape == SelectSeq(a.shape, IsNotOne)
        expand(ix) == [d \in 1..Len(a.shape) |->
                          IF a.shape[d] = 1 THEN 0 ELSE ix[kept(d)]]
    IN  [shape |-> shape, data |-> [ix \in Indices(shape) |-> a.data[expand(ix)]]]

\* a plausible slip: the axes are not swapped
TransposeNoSwap(a) == a

\* np.transpose(array): the axes are reversed
Transpose(a) ==
    LET shape == Reverse(a.shape)
    IN  [shape |-> shape, data |-> [ix \in Indices(shape) |-> a.data[Reverse(ix)]]]

(***************************************************************************)
(* The target parameter tree                                               *)
(***************************************************************************)
DigitOf(n) == SubSeq("0123456789", n + 1, n + 1)

RECURSIVE Str(_)
\* str(n), n >= 0
Str(n) == IF n < 10 THEN DigitOf(n) ELSE Str(n \div 10) \o DigitOf(n % 10)

\* shapes of the parameters outside the repeated blocks, for sizes a = [H, I]
FixedParamShapes(a) ==
    ("word_embedder._embedding" :> <<a.I, a.H>>) @@
    ("segment_embedder._embedding" :> <<a.I, a.H>>) @@
    ("position_embedder._embedding" :> <<a.I, a.H>>) @@
    ("encoder.input_normalizer.bias" :> <<a.H>>) @@
    ("encoder.input_normalizer.weight" :> <<a.H>>) @@
    ("pooler.0.bias" :> <<a.H>>) @@
    ("pooler.0.weight" :> <<a.H, a.H>>)

\* shapes of the parameters of one repeated block, by path template
BlockParamShapes(a) ==
    (<<"self_attns.", ".K_dense.bias">> :> <<a.H>>) @@
    (<<"self_attns.", ".Q_dense.bias">> :> <<a.H>>) @@
    (<<"self_attns.", ".V_dense.bias">> :> <<a.H>>) @@
    (<<"self_attns.", ".O_dense.bias">> :> <<a.H>>) @@
    (<<"poswise_layer_norm.", ".weight">> :> <<a.H>>) @@
    (<<"poswise_layer_norm.", ".bias">> :> <<a.H>>) @@
    (<<"poswise_networks.", "._layers.0.bias">> :> <<a.I>>) @@
    (<<"poswise_networks.", "._layers.2.bias">> :> <<a.H>>) @@
    (<<"output_layer_norm.", ".weight">> :> <<a.H>>) @@
    (<<"output_layer_norm.", ".bias">> :> <<a.H>>) @@
    (<<"self_attns.", ".K_dense.weight">> :> <<a.H, a.H>>) @@
    (<<"self_attns.", ".Q_dense.weight">> :> <<a.H, a.H>>) @@
    (<<"self_attns.", ".V_dense.weight">> :> <<a.H, a.H>>) @@
    (<<"self_attns.", ".O_dense.weight">> :> <<a.H, a.H>>) @@
    (<<"poswise_networks.", "._layers.0.weight">> :> <<a.I, a.H>>) @@
    (<<"poswise_networks.", "._layers.2.weight">> :> <<a.H, a.I>>)

\* the path of a block parameter in the tree
BlockPath(i, template) == py_prefix \o Format(template, Str(i))

\* a parameter as the model's constructor leaves it
FreshParam(shape) == [shape |-> shape, data |-> [ix \in Indices(shape) |-> <<0, ix>>]]

\* the template each block parameter's path is built from
BlockTemplateOf ==
    LET blocks == (0..(NumLayers - 1)) \X DOMAIN BlockParamShapes([H |-> 1, I |-> 1])
        paths == {BlockPath(b[1], b[2]) : b \in blocks}
    IN  [p \in paths |-> (CHOOSE b \in blocks : BlockPath(b[1], b[2]) = p)[2]]

\* the dotted paths of the parameters of a model with NumLayers blocks
ParamPaths == DOMAIN FixedParamShapes([H |-> 1, I |-> 1]) \cup DOMAIN BlockTemplateOf

\* self._name_to_variable(v_name) finds a parameter
HasVariable(v_name) == v_name \in ParamPaths

\* the shape the model's constructor gave the parameter at path p
ParamShape(a, p) ==
    IF p \in DOMAIN FixedParamShapes(a) THEN FixedParamShapes(a)[p]
    ELSE BlockParamShapes(a)[BlockTemplateOf[p]]

\* The tree of a freshly constructed model.  A tree is kept as the function
\* from the paths whose data has been replaced to the array each now holds;
\* every other parameter is as the constructor left it.
FreshTree == <<>>

\* the parameter self._name_to_variable(p) returns, p one of ParamPaths
Param(t, a, p) == IF p \in DOMAIN t THEN t[p] ELSE FreshParam(ParamShape(a, p))

\* the tree after the parameter at p holds the array v
WithParam(t, a, p, v) ==
    IF v = FreshParam(ParamShape(a, p))
    THEN [q \in DOMAIN t \ {p} |-> t[q]]
    ELSE [q \in DOMAIN t \cup {p} |-> IF q = p THEN v ELSE t[q]]

(***************************************************************************)
(* One iteration of the loop over zip(tfnames, arrays)                     *)
(***************************************************************************)
NoError == [kind |-> "none", name |-> ""]

\* a plausible slip: the optimizer's second-moment slots are not filtered out
SkipFilterNoAdamV(name) ==
    \/ StartsWith(name, "cls")
    \/ name = "global_step"
    \/ EndsWith(name, "adam_m")

\* the names the loop passes over with `continue`
SkipFilter(name) ==
    \/ StartsWith(name, "cls")
    \/ name = "global_step"
    \/ EndsWith(name, "adam_m")
    \/ EndsWith(name, "adam_v")

\* a plausible slip: the slice keeps the last character of "layer_"
LayerNoOffByOne(name_tmp) == SliceFrom(name_tmp[3], 5)

\* layer_no = name_tmp[2][6:]
LayerNo(name_tmp) == SliceFrom(name_tmp[3], 6)

\* name_tmp = "/".join(name_tmp[3:])
LayerSuffix(name_tmp) == Join("/", ListFrom(name_tmp, 3))

\* Which branch a name that is not skipped takes, the variable it names and
\* whether the array is transposed; kind is the exception raised before any
\* variable is looked up.
Resolve(name) ==
    IF name \in DOMAIN global_tensor_map
    THEN [branch |-> "global", v_name |-> global_tensor_map[name],
          transpose |-> FALSE, kind |-> "none"]
    ELSE IF name \in DOMAIN pooler_map
    THEN IF EndsWith(name, "bias")
         THEN [branch |-> "pooler_bias", v_name |-> pooler_map[name],
               transpose |-> FALSE, kind |-> "none"]
         ELSE [branch |-> "pooler_weight", v_name |-> pooler_map[name],
               transpose |-> TRUE, kind |-> "none"]
    ELSE LET name_tmp == Split(name, "/")
         IN  IF Len(name_tmp) < 3
             THEN [branch |-> "layer", v_name |-> "",
                   transpose |-> FALSE, kind |-> "IndexError"]
             ELSE IF LayerSuffix(name_tmp) \in DOMAIN layer_tensor_map
             THEN [branch |-> "layer_tensor",
                   v_name |-> py_prefix \o
                       Format(layer_tensor_map[LayerSuffix(name_tmp)], LayerNo(name_tmp)),
                   transpose |-> FALSE, kind |-> "none"]
             ELSE IF LayerSuffix(name_tmp) \in DOMAIN layer_transpose_map
             THEN [branch |-> "layer_transpose",
                   v_name |-> py_prefix \o
                       Format(layer_transpose_map[LayerSuffix(name_tmp)], LayerNo(name_tmp)),
                   transpose |-> TRUE, kind |-> "none"]
             ELSE [branch |-> "layer", v_name |-> "",
                   transpose |-> FALSE, kind |-> "NameError"]

\* a plausible slip: the shapes are not compared
ShapeEqNever(pointer_shape, array_shape) == TRUE

\* pointer.shape == array.shape
ShapeEq(pointer_shape, array_shape) == pointer_shape = array_shape

\* a plausible slip: pointer.data is set before the assert
AssertedAssignEarly(old, new, ok) == new

\* assert pointer.shape == array.shape; pointer.data = torch.from_numpy(array):
\* what the parameter holds afterwards
AssertedAssign(old, new, ok) == IF ok THEN new ELSE old

\* The iteration for the pair (name, array), name not skipped.
Iterate(name, array) ==
    \E r \in {Resolve(name)} :
    \E value \in {IF r.transpose THEN Transpose(array) ELSE array} :
    \E found \in {r.kind = "none" /\ HasVariable(r.v_name)} :
    \E ok \in {found /\ ShapeEq(Param(tree, arch, r.v_name).shape, value.shape)} :
    \E kind \in {IF r.kind # "none" THEN r.kind
                 ELSE IF ~found THEN "PathNotFound"
                 ELSE IF ~ok THEN "AssertionError"
                 ELSE "none"} :
        /\ pc = "loop"
        /\ pos < Len(tfnames)
        /\ pos' = pos + 1
        /\ before' = tree
        /\ loc' = [name |-> name, array |-> array, branch |-> r.branch,
                   v_name |-> r.v_name, value |-> value]
        /\ tree' = IF found
                   THEN WithParam(tree, arch, r.v_name,
                            AssertedAssign(Param(tree, arch, r.v_name), value, ok))
                   ELSE tree
        /\ assigned' = IF tree' # tree \/ ok THEN Append(assigned, r.v_name) ELSE assigned
        /\ idx' = IF kind = "none" THEN idx + 1 ELSE idx
        /\ err' = IF kind = "none" THEN NoError ELSE [kind |-> kind, name |-> name]
        /\ pc' = IF kind = "none" THEN "loop" ELSE "failed"
        /\ UNCHANGED <<ckpt, arch, tfnames, arrays, run, first, cfg>>

(***************************************************************************)
(* The pass _init_from_checkpoint                                          *)
(***************************************************************************)
\* a plausible slip: the loop resumes an iterator an earlier pass has used up
FirstPositionStale(previous) == previous

\* zip(tfnames, arrays) starts before the first pair, whatever ran before
FirstPosition(previous) == 0

\* init_vars = tf.train.list_variables(tf_path) and the loop that fills
\* tfnames and arrays with the squeezed variables
LoadVariables ==
    /\ pc = "load"
    /\ tfnames' = [k \in 1..Len(ckpt) |-> ckpt[k].name]
    /\ arrays' = [k \in 1..Len(ckpt) |-> Squeeze(LoadVariable(k, ckpt[k].shape))]
    /\ pos' = FirstPosition(pos)
    /\ idx' = 0
    /\ pc' = "loop"
    /\ UNCHANGED <<ckpt, arch, tree, loc, before, assigned, err, run, first, cfg>>

\* the next pair of the loop
NextName == tfnames[pos + 1]
NextArray == arrays[pos + 1]

\* the filtered names: continue
SkipTensor ==
    /\ pc = "loop"
    /\ pos < Len(tfnames)
    /\ SkipFilter(NextName)
    /\ pos' = pos + 1
    /\ before' = tree
    /\ loc' = [name |-> NextName, array |-> NextArray, branch |-> "skip",
               v_name |-> "", value |-> NextArray]
    /\ UNCHANGED <<ckpt, arch, tree, tfnames, arrays, idx, assigned, err, pc,
                   run, first, cfg>>

\* if name in global_tensor_map
GlobalTensor ==
    /\ pc = "loop"
    /\ pos < Len(tfnames)
    /\ ~SkipFilter(NextName)
    /\ NextName \in DOMAIN global_tensor_map
    /\ Iterate(NextName, NextArray)

\* elif name in pooler_map
PoolerTensor ==
    /\ pc = "loop"
    /\ pos < Len(tfnames)
    /\ ~SkipFilter(NextName)
    /\ NextName \notin DOMAIN global_tensor_map
    /\ NextName \in DOMAIN pooler_map
    /\ Iterate(NextName, NextArray)

\* else: the name is taken for a tensor of a repeated block
LayerTensor ==
    /\ pc = "loop"
    /\ pos < Len(tfnames)
    /\ ~SkipFilter(NextName)
    /\ NextName \notin DOMAIN global_tensor_map
    /\ NextName \notin DOMAIN pooler_map
    /\ Iterate(NextName, NextArray)

\* the loop has consumed every pair: the pass returns
Finish ==
    /\ pc = "loop"
    /\ pos >= Len(tfnames)
    /\ pc' = "done"
    /\ UNCHANGED <<ckpt, arch, tree, tfnames, arrays, pos, idx, loc, before,
                   assigned, err, run, first, cfg>>

\* The same checkpoint is loaded a second time into a freshly constructed model.
SecondPass ==
    /\ pc \in {"done", "failed"}
    /\ run = 1
    /\ run' = 2
    /\ first' = [tree |-> tree, err |-> err, pos |-> pos]
    /\ tree' = FreshTree
    /\ before' = FreshTree
    /\ assigned' = <<>>
    /\ err' = NoError
    /\ pc' = "load"
    /\ UNCHANGED <<ckpt, arch, tfnames, arrays, pos, idx, loc, cfg>>

(***************************************************************************)
(* Checkpoints and target models the pass is run on                        *)
(***************************************************************************)
SkippedNames ==
    {"cls", "cls/predictions/output_bias", "cls/encoder/layer_0/output/dense/bias",
     "global_step", "adam_m", "bert/embeddings/word_embeddings/adam_m",
     "bert/pooler/dense/kernel/adam_v",
     "bert/encoder/layer_0/output/dense/bias/adam_v"}

StrayNames ==
    {"output_bias", "output_weights", "bert/encoder", "bert/encoder/layer_0",
     "bert/encoder/layer_0/attention/self/key",
     "bert/encoder/layer_x/output/dense/bias",
     "bert/encoder/layer_/output/dense/kernel",
     "bert/decoder/layer_0/output/dense/bias",
     "bert/encoder/block_0/output/dense/bias"}

\* 'bert/encoder/layer_i/<suffix>'
LayerName(i, suffix) == "bert/encoder/layer_" \o Str(i) \o "/" \o suffix

LayerSuffixes == DOMAIN layer_tensor_map \cup DOMAIN layer_transpose_map

LayerNames == {LayerName(i, suffix) : i \in 0..NumLayers, suffix \in LayerSuffixes}

AllNames ==
    SkippedNames \cup StrayNames \cup LayerNames
        \cup DOMAIN global_tensor_map \cup DOMAIN pooler_map

AllShapes ==
    {<<>>} \cup {<<a>> : a \in 1..MaxDim} \cup {<<a, b>> : a, b \in 1..MaxDim}

\* the sizes [H, I] of the target models: hidden size H, intermediate and
\* vocabulary size I
AllArchs == {[H |-> h, I |-> i] : h \in 1..MaxDim, i \in {1, MaxDim}}

SeqNames ==
    {"global_step", "output_bias", "bert/embeddings/LayerNorm/beta",
     "bert/pooler/dense/kernel",
     LayerName(0, "output/dense/bias"),
     "bert/decoder/layer_0/output/dense/bias",
     LayerName(1, "attention/self/query/kernel"),
     LayerName(NumLayers, "output/dense/bias")}

SeqShapes == {<<MaxDim>>, <<MaxDim, MaxDim>>}

\* the checkpoints of at most n variables, no name twice
Checkpoints(names, shapes, n) ==
    UNION {{c \in [1..m -> [name : names, shape : shapes]] :
               \A j, k \in 1..m : j # k => c[j].name # c[k].name} : m \in 0..n}

NoLocals == [name |-> "", array |-> LoadVariable(0, <<>>), branch |-> "none",
             v_name |-> "", value |-> LoadVariable(0, <<>>)]

ConfigIdle == [arg_name |-> <<>>, arg_dir |-> <<>>, hparams |-> <<>>,
               self_name |-> <<>>, self_dir |-> <<>>, self_model_dir |-> <<>>,
               raised |-> "none", pc |-> "idle"]

\* the state when _init_from_checkpoint is entered on a freshly constructed model
InitPass(c, a) ==
    /\ ckpt = c
    /\ arch = a
    /\ tree = FreshTree
    /\ tfnames = <<>>
    /\ arrays = <<>>
    /\ pos = 0
    /\ idx = 0
    /\ loc = NoLocals
    /\ before = FreshTree
    /\ assigned = <<>>
    /\ err = NoError
    /\ pc = "load"
    /\ run = 1
    /\ first = [tree |-> FreshTree, err |-> NoError, pos |-> 0]

\* any one variable, of any shape, against any target sizes
InitOne ==
    \E c \in Checkpoints(AllNames, AllShapes, 1), a \in AllArchs : InitPass(c, a)

\* several variables against the largest target
InitSeq ==
    \E c \in Checkpoints(SeqNames, SeqShapes, MaxTensors) :
        InitPass(c, [H |-> MaxDim, I |-> MaxDim])

Init == cfg = ConfigIdle /\ (InitOne \/ InitSeq)

Next ==
    \/ LoadVariables
    \/ SkipTensor
    \/ GlobalTensor
    \/ PoolerTensor
    \/ LayerTensor
    \/ Finish
    \/ SecondPass

Spec == Init /\ [][Next]_vars

(***************************************************************************)
(* load_pretrained_config                                                  *)
(*                                                                         *)
(* An Optional[str] is <<>> for None and <<s>> for the string s.           *)
(***************************************************************************)
None == <<>>

\* posixpath.join(a, b) of two strings
OsPathJoin(a, b) ==
    IF StartsWith(b, "/") THEN b
    ELSE IF a = "" \/ EndsWith(a, "/") THEN a \o b
    ELSE a \o "/" \o b

\* hparams.<field> if <argument> is None else <argument>; <<"AttributeError">>
\* when the attribute is read from hparams=None
ArgOrHparams(arg, hparams, field) ==
    IF arg # None THEN [raised |-> "none", value |-> arg]
    ELSE IF hparams = None THEN [raised |-> "AttributeError", value |-> None]
    ELSE [raised |-> "none", value |-> hparams[1][field]]

\* the first argument the method hands to os.path.join
JoinedDirectory(c, self_dir) == c.arg_dir

\* c after lines 49-59 of load_pretrained_config have run or raised.  The two
\* calls that follow (self._transform_config and HParams) read the
\* configuration file under pretrained_model_dir and belong to other modules;
\* pc = "returned" stands for reaching them.
ConfigResult(c) ==
    LET n == ArgOrHparams(c.arg_name, c.hparams, "pretrained_model_name")
        d == ArgOrHparams(c.arg_dir, c.hparams, "cache_dir")
    IN  IF n.raised # "none"
        THEN [c EXCEPT !.raised = n.raised, !.pc = "raised"]
        ELSE IF d.raised # "none"
        THEN [c EXCEPT !.self_name = n.value, !.raised = d.raised, !.pc = "raised"]
        ELSE IF n.value = None \/ d.value = None
        THEN [c EXCEPT !.self_name = n.value, !.self_dir = d.value,
                       !.raised = "ValueError", !.pc = "raised"]
        ELSE IF JoinedDirectory(c, d.value) = None
        THEN [c EXCEPT !.self_name = n.value, !.self_dir = d.value,
                       !.raised = "TypeError", !.pc = "raised"]
        ELSE [c EXCEPT !.self_name = n.value, !.self_dir = d.value,
                       !.self_model_dir =
                           <<OsPathJoin(JoinedDirectory(c, d.value)[1], n.value[1])>>,
                       !.pc = "returned"]

LoadPretrainedConfig ==
    /\ cfg.pc = "call"
    /\ cfg' = ConfigResult(cfg)
    /\ UNCHANGED loaderVars

ModelNames == {None, <<"bert-base-uncased">>, <<"/ckpt/bert">>}

CacheDirs == {None, <<"finetuned">>, <<"finetuned/">>}

ConfigCalls ==
    {[ConfigIdle EXCEPT !.arg_name = n, !.arg_dir = d, !.hparams = h, !.pc = "call"] :
        n \in ModelNames, d \in CacheDirs,
        h \in {None} \cup {<<hp>> : hp \in [pretrained_model_name : ModelNames,
                                            cache_dir : CacheDirs]}}

InitConfig ==
    /\ cfg \in ConfigCalls
    /\ InitPass(<<>>, [H |-> 1, I |-> 1])

NextConfig == LoadPretrainedConfig

SpecConfig == InitConfig /\ [][NextConfig]_vars

(***************************************************************************)
(* Properties.  After an iteration, loc holds its locals, before the tree  *)
(* it started from, and ckpt[pos] the variable as the checkpoint stores it. *)
(***************************************************************************)
\* an iteration of the loop of this pass has run
Iterated == pc \in {"loop", "done", "failed"} /\ pos >= 1

\* the iteration replaced the data of a parameter
Wrote == tree # before

\* the shape the last iterated variable is stored with
StoredShape == ckpt[pos].shape

\* a shape with its axes of length 1 left out
WithoutUnitAxes(shape) == SelectSeq(shape, IsNotOne)

\* the last iterated name goes through one of the two transposing entries
TransposeDeclared == loc.branch \in {"pooler_weight", "layer_transpose"}

\* C1: a name the skip filter accepts (starts with 'cls', is 'global_step',
\* ends with 'adam_m' or 'adam_v') is passed over: no parameter is assigned
\* and no error is raised, whatever else the name looks like.
C1_SkippedNameIsNoOp ==
    LET accepted(n) == \/ StartsWith(n, "cls")
                       \/ n = "global_step"
                       \/ EndsWith(n, "adam_m")
                       \/ EndsWith(n, "adam_v")
    IN  (Iterated /\ accepted(loc.name)) =>
            /\ tree = before
            /\ err = NoError
            /\ pc # "failed"
            /\ loc.v_name = ""

\* a name that starts with 'cls' and would match a layer entry has been passed over
C1_Witness ==
    /\ Iterated
    /\ loc.name = "cls/encoder/layer_0/output/dense/bias"
    /\ loc.branch = "skip"
    /\ tree = before
    /\ pc = "loop"

\* C2: a name that is not skipped and matches no mapping rule (also one with
\* fewer than three segments or a non-numeric layer index) ends the pass with
\* the unresolved-name error, which names it, and with no other failure.
C2_UnmatchedNameIsNameError ==
    LET accepted(n) == \/ StartsWith(n, "cls")
                       \/ n = "global_step"
                       \/ EndsWith(n, "adam_m")
                       \/ EndsWith(n, "adam_v")
        digits(t) == Len(t) > 0 /\ \A i \in 1..Len(t) :
                        SubSeq(t, i, i) \in {DigitOf(d) : d \in 0..9}
        matched(n) ==
            \/ n \in DOMAIN global_tensor_map
            \/ n \in DOMAIN pooler_map
            \/ /\ Len(Split(n, "/")) >= 3
               /\ digits(SliceFrom(Split(n, "/")[3], 6))
               /\ Join("/", ListFrom(Split(n, "/"), 3)) \in LayerSuffixes
    IN  (Iterated /\ ~accepted(loc.name) /\ ~matched(loc.name)) =>
            /\ pc = "failed"
            /\ err = [kind |-> "NameError", name |-> loc.name]

C4_FailedPassWroteNothing == pc = "failed" => tree = FreshTree

\* C5: within one pass no path is assigned twice.
C5_EachPathAssignedOnce ==
    \A j, k \in 1..Len(assigned) : j # k => assigned[j] # assigned[k]

\* C6: the table that matches fixes the transform.  Through the Global table,
\* the Pooler bias and the non-transpose layer table the stored values arrive
\* unchanged, position by position; through the Pooler weight and the
\* transpose layer table a stored array A of shape (a, b) leaves the parameter
\* T with shape (b, a) and T[j][i] = A[i][j].
C6_TransformFixedByTable ==
    LET n == loc.name
        segs == Split(n, "/")
        suffix == IF Len(segs) >= 3 THEN Join("/", ListFrom(segs, 3)) ELSE ""
        plain == \/ n \in DOMAIN global_tensor_map
                 \/ n = "bert/pooler/dense/bias"
                 \/ (n \notin DOMAIN pooler_map /\ suffix \in DOMAIN layer_tensor_map)
        swapped == \/ n = "bert/pooler/dense/kernel"
                   \/ (n \notin DOMAIN pooler_map /\ suffix \in DOMAIN layer_transpose_map)
        T == Param(tree, arch, loc.v_name)
        kept(d) == Cardinality({e \in 1..d : StoredShape[e] # 1})
        squeezed(ix) == [d \in 1..kept(Len(StoredShape)) |->
                            ix[CHOOSE e \in 1..Len(StoredShape) :
                                   StoredShape[e] # 1 /\ kept(e) = d]]
    IN  (Iterated /\ Wrote) =>
            /\ plain \/ swapped
            /\ plain =>
                   \A ix \in Indices(StoredShape) : T.data[squeezed(ix)] = <<pos, ix>>
            /\ (swapped /\ Len(StoredShape) = 2) =>
                   /\ T.shape = <<StoredShape[2], StoredShape[1]>>
                   /\ \A i \in 0..(StoredShape[1] - 1), j \in 0..(StoredShape[2] - 1) :
                          T.data[<<j, i>>] = <<pos, <<i, j>>>>

\* a kernel stored as (2, 3) has been written, transposed, into the (3, 2)
\* weight of block 1's first feed-forward layer
C6_Witness ==
    /\ Iterated
    /\ Wrote
    /\ loc.name = LayerName(1, "intermediate/dense/kernel")
    /\ StoredShape = <<2, 3>>
    /\ loc.v_name = "encoder.poswise_networks.1._layers.0.weight"
    /\ tree[loc.v_name].shape = <<3, 2>>
    /\ tree[loc.v_name].data[<<2, 1>>] = <<pos, <<1, 2>>>>

\* for every name 'bert/encoder/layer_i/<suffix>', i in 0..L: the index i and
\* the suffix's template with i in place of {} under 'encoder.'
LayerNameTargets ==
    LET pairs == (0..NumLayers) \X LayerSuffixes
        template(suffix) == IF suffix \in DOMAIN layer_tensor_map
                            THEN layer_tensor_map[suffix]
                            ELSE layer_transpose_map[suffix]
    IN  [n \in {LayerName(q[1], q[2]) : q \in pairs} |->
            LET q == CHOOSE q \in pairs : LayerName(q[1], q[2]) = n
            IN  [i |-> q[1],
                 path |-> "encoder." \o template(q[2])[1] \o Str(q[1])
                              \o template(q[2])[2]]]

\* C7: 'bert/encoder/layer_i/<suffix>' with i in [0, L) resolves to the
\* suffix's template with i in place of {} under 'encoder.', and only that
\* parameter can change; with i outside [0, L) the pass fails with
\* PathNotFound and the iteration writes nothing.
C7_LayerIndexSubstituted ==
    (Iterated /\ loc.name \in DOMAIN LayerNameTargets) =>
        LET i == LayerNameTargets[loc.name].i
            expected == LayerNameTargets[loc.name].path
        IN  IF i < NumLayers
            THEN /\ loc.v_name = expected
                 /\ err.kind \in {"none", "AssertionError"}
                 /\ \A p \in DOMAIN tree \cup DOMAIN before :
                        p # expected => (p \in DOMAIN tree /\ p \in DOMAIN before
                                            /\ tree[p] = before[p])
                 /\ err.kind = "none" => tree # before
            ELSE /\ err.kind = "PathNotFound"
                 /\ pc = "failed"
                 /\ tree = before

\* a pass has written block 0's output bias and then failed on the same tensor
\* of block L, which the model does not have
C7_Witness ==
    /\ pc = "failed"
    /\ err = [kind |-> "PathNotFound", name |-> LayerName(NumLayers, "output/dense/bias")]
    /\ assigned = <<"encoder.poswise_networks.0._layers.2.bias">>
    /\ tree = before

C10_SameFallbackForBoth ==
    (cfg.pc \in {"returned", "raised"} /\ cfg.hparams # None) =>
        LET name == IF cfg.arg_name = None
                    THEN cfg.hparams[1].pretrained_model_name ELSE cfg.arg_name
            dir == IF cfg.arg_dir = None THEN cfg.hparams[1].cache_dir ELSE cfg.arg_dir
        IN  IF name = None \/ dir = None
            THEN cfg.pc = "raised" /\ cfg.raised = "ValueError"
            ELSE /\ cfg.pc = "returned"
                 /\ cfg.self_model_dir = <<OsPathJoin(dir[1], name[1])>>

====
